---- MODULE Spec2Model ----
(***************************************************************************)
(* Model of AlfaLuaTest/piano-sheets-db.                                   *)
(*                                                                         *)
(*   src/app.py      Flask API over a catalog document and a favorites     *)
(*                   module, both kept in a GitHub repository              *)
(*   src/scraper.py  PianoSheetsScraper, the batch collector               *)
(*                                                                         *)
(* Python strings are modelled as sequences of one-character strings, so   *)
(* that formatting, regular-expression parsing, splitting and substring    *)
(* tests are computed the way the code computes them.                      *)
(***************************************************************************)
EXTENDS Integers, Sequences, FiniteSets, TLC

VARIABLES
    \* ---- favorites store and the requests against it (src/app.py) ----
    favFile,     \* data.js in the repository: [content, sha]
    fpc,         \* per request: position in add_favorite / remove_favorite
    freq,        \* per request: [op, has_id, song_id] of the POST body
    favorites,   \* per request: the handler's local list `favorites`
    fileSha,     \* per request: file.sha fetched inside update_favorites
    fresp,       \* per request: the response returned
    fhist,       \* per request: history of its store accesses (ghost)
    \* ---- catalog and the read-only endpoints (src/app.py) ----
    catalog,     \* sheets/piano_sheets.json: the list of song dicts
    qreq,        \* the last catalog request: [endpoint, q]
    qresp,       \* its response: [status, body]
    \* ---- the collector (src/scraper.py) ----
    site,            \* the listing pages of the scraped site (environment)
    sheets,          \* the files under sheets/: a set of [path, data]
    spc,             \* position of the collector process
    existing_songs,  \* self.existing_songs
    page,            \* get_all_song_links: page
    all_songs,       \* get_all_song_links: all_songs, then run: songs
    idx,             \* run: position of the for loop in songs
    successful,      \* run: successful
    failed,          \* run: failed
    outcome,         \* how run left its try block
    quits,           \* calls of self.driver.quit() in this run
    shist            \* history of the collector (ghost)

favVars == <<favFile, fpc, freq, favorites, fileSha, fresp, fhist>>
queryVars == <<catalog, qreq, qresp>>
scraperVars == <<site, sheets, spc, existing_songs, page, all_songs, idx,
                 successful, failed, outcome, quits, shist>>

vars == <<favVars, queryVars, scraperVars>>

\* what the favorites requests leave alone, what the catalog requests do, and
\* what the collector does
notFavVars == <<queryVars, scraperVars>>
notQueryVars == <<favVars, scraperVars>>
notScraperVars == <<favVars, queryVars>>

(***************************************************************************)
(* Bounds of the model.                                                    *)
(***************************************************************************)
\* number of favorites requests in one behaviour
MaxReq == 2
\* length of the favorites list data.js holds initially
MaxInitFavs == 2
\* number of records in the catalog document
MaxCatalog == 2
\* number of listing pages of the scraped site
MaxPages == 2
\* number of collector runs in one behaviour
MaxRuns == 2

(***************************************************************************)
(* Strings.                                                                *)
(***************************************************************************)
Q == "\""
RB == "]"
NL == "\n"
SP == " "

\* Python `sub in s` for strings
Contains(s, sub) ==
    \E i \in 0..(Len(s) - Len(sub)) : SubSeq(s, i + 1, i + Len(sub)) = sub

\* Python `x in lst` for lists
InList(x, lst) == \E i \in 1..Len(lst) : lst[i] = x

\* Python values that can arrive as song_id: a str, or an int (any JSON value
\* passes the `'song_id' in data` test).  s is the text str(v) yields.
PyStr(chars) == [t |-> "str", s |-> chars]
PyInt(digits) == [t |-> "int", s |-> digits]

\* f'{fav}': the text of a value
Format(v) == v.s

RECURSIVE Join(_, _)
\* sep.join(parts)
Join(sep, parts) ==
    IF Len(parts) = 0 THEN <<>>
    ELSE IF Len(parts) = 1 THEN parts[1]
    ELSE parts[1] \o sep \o Join(sep, Tail(parts))

\* lines 65-72 of update_favorites: the text of data.js after the opening
\* "[" of "export const favorites = [" (the header before it is fixed text
\* that holds no "[" and no second "favorites =")
RenderFavorites(favorites_list) ==
    LET quoted == [i \in 1..Len(favorites_list) |->
                      <<Q>> \o Format(favorites_list[i]) \o <<Q>>]
        favorites_js == Join(<<",", NL, SP, SP>>, quoted)
    IN  <<NL, SP, SP>> \o favorites_js \o <<NL, RB, ";", NL>>

\* index of the first occurrence of c in s at or after i, 0 when there is none
RECURSIVE IndexFrom(_, _, _)
IndexFrom(s, c, i) ==
    IF i > Len(s) THEN 0
    ELSE IF s[i] = c THEN i
    ELSE IndexFrom(s, c, i + 1)

\* re.search(r'favorites\s*=\s*\[(.*?)\]', content, re.DOTALL).group(1):
\* the text up to the first "]"; NoMatch when there is no "]"
NoMatch == <<"<no match>">>
ArrayBody(content) ==
    LET j == IndexFrom(content, RB, 1)
    IN  IF j = 0 THEN NoMatch ELSE SubSeq(content, 1, j - 1)

\* re.findall(r'"([^"]+)"', s): scanning from i, a match starts at a quote
\* that is followed by at least one non-quote character and a closing quote;
\* scanning resumes after the closing quote
RECURSIVE FindAllQuoted(_, _)
FindAllQuoted(s, i) ==
    IF i > Len(s) THEN <<>>
    ELSE IF s[i] # Q THEN FindAllQuoted(s, i + 1)
    ELSE LET j == IndexFrom(s, Q, i + 1)
         IN  IF j = 0 \/ j = i + 1 THEN FindAllQuoted(s, i + 1)
             ELSE <<PyStr(SubSeq(s, i + 1, j - 1))>> \o FindAllQuoted(s, j + 1)

\* lines 40-51 of get_favorites
ParseFavorites(content) ==
    LET body == ArrayBody(content)
    IN  IF body = NoMatch THEN <<>> ELSE FindAllQuoted(body, 1)

\* list.remove(x): drops the first occurrence
RECURSIVE ListRemove(_, _)
ListRemove(lst, x) ==
    IF Len(lst) = 0 THEN <<>>
    ELSE IF lst[1] = x THEN Tail(lst)
    ELSE <<lst[1]>> \o ListRemove(Tail(lst), x)

NoDuplicates(lst) ==
    \A i, j \in 1..Len(lst) : lst[i] = lst[j] => i = j

(***************************************************************************)
(* Favorites: the requests POST /api/favorites/add and /remove against     *)
(* data.js.  Requests run concurrently (the hosting runtime serves them in *)
(* parallel); each access to the repository is one step.                   *)
(***************************************************************************)
Reqs == 1..MaxReq

\* song_id values a client may send
SongIds ==
    { PyStr(<<"a">>), PyStr(<<"b">>), PyStr(<<>>), PyStr(<<"a", Q, Q, "a">>),
      PyInt(<<"7">>) }

\* ids as the catalog derives them: plain text
PlainIds == { PyStr(<<"a">>), PyStr(<<"b">>) }

\* the lists data.js may hold at the start: duplicate-free, plain ids
InitFavLists ==
    { l \in UNION { [1..n -> PlainIds] : n \in 0..MaxInitFavs } : NoDuplicates(l) }

\* the collector before any run, over a site without pages (see below)
NoScraperHist ==
    [ runs |-> 0,               \* runs started
      attempted |-> <<>>,       \* urls scrape_song was called with, this run
      saved |-> {},             \* urls save_song wrote a file for, this run
      savedBefore |-> {},       \* urls earlier runs wrote a file for
      firstPageFailed |-> FALSE,   \* driver.get raised on page 1, this run
      pages |-> <<>> ]          \* listing pages visited, this run

ScraperLocalsAtRest ==
    /\ spc = "new"
    /\ existing_songs = {}
    /\ page = 1
    /\ all_songs = <<>>
    /\ idx = 1
    /\ successful = 0
    /\ failed = 0
    /\ outcome = "none"
    /\ quits = 0
    /\ shist = NoScraperHist

ScraperAtRest ==
    /\ site = <<>>
    /\ sheets = {}
    /\ ScraperLocalsAtRest

\* the catalog endpoints at rest (see below)
NoRequest == [endpoint |-> "none", q |-> <<>>]
NoAnswer == [status |-> 0, body |-> <<>>]
Answer(code, body) == [status |-> code, body |-> body]

NoResp == [status |-> 0, message |-> "", favorites |-> <<>>]
ErrorResp(code) == [status |-> code, message |-> "error", favorites |-> <<>>]
OkResp(msg, favs) == [status |-> 200, message |-> msg, favorites |-> favs]

NoHist ==
    [ read |-> FALSE,      \* get_favorites returned a list
      readSha |-> 0,       \* version of data.js that list was parsed from
      readFavs |-> <<>>,   \* the list get_favorites returned
      updCalled |-> FALSE, \* update_favorites was entered
      wrote |-> FALSE,     \* repo.update_file succeeded
      baseSha |-> 0,       \* version of data.js the write replaced
      newSha |-> 0 ]       \* version of data.js the write created

FavInitWith(lists) ==
    /\ \E l \in lists : favFile = [content |-> RenderFavorites(l), sha |-> 1]
    /\ fpc = [p \in Reqs |-> "idle"]
    /\ freq = [p \in Reqs |-> [op |-> "none", has_id |-> FALSE, song_id |-> PyStr(<<>>)]]
    /\ favorites = [p \in Reqs |-> <<>>]
    /\ fileSha = [p \in Reqs |-> 0]
    /\ fresp = [p \in Reqs |-> NoResp]
    /\ fhist = [p \in Reqs |-> NoHist]

FavInit == FavInitWith(InitFavLists)

\* a request arrives; slots are taken in order.  The handler's steps up to its
\* first access to the repository touch nothing shared and are taken with it.
CanStart(p) ==
    /\ fpc[p] = "idle"
    /\ IF p = 1 THEN TRUE ELSE fpc[p - 1] # "idle"

Request(op, id) == [op |-> op, has_id |-> TRUE, song_id |-> id]

\* lines 318-319 / 351-352: no body, or no song_id in it
PostFavoriteNoId(p) ==
    /\ CanStart(p)
    /\ \E op \in {"add", "remove"} :
          freq' = [freq EXCEPT ![p] = [op |-> op, has_id |-> FALSE, song_id |-> PyStr(<<>>)]]
    /\ fpc' = [fpc EXCEPT ![p] = "done"]
    /\ fresp' = [fresp EXCEPT ![p] = ErrorResp(400)]
    /\ UNCHANGED <<favFile, favorites, fileSha, fhist>>
    /\ UNCHANGED notFavVars

\* a request with a song_id whose get_favorites raises inside (repo unset,
\* network, decoding): lines 52-53, then lines 325-326 / 358-359
GetFavoritesFail(p) ==
    /\ CanStart(p)
    /\ \E op \in {"add", "remove"}, id \in SongIds :
          freq' = [freq EXCEPT ![p] = Request(op, id)]
    /\ fpc' = [fpc EXCEPT ![p] = "done"]
    /\ fresp' = [fresp EXCEPT ![p] = ErrorResp(500)]
    /\ UNCHANGED <<favFile, favorites, fileSha, fhist>>
    /\ UNCHANGED notFavVars

\* add_favorite, lines 316-333: take song_id from the body, read the list,
\* return if the id is in it, else append
AddFavoriteRead(p) ==
    /\ CanStart(p)
    /\ \E song_id \in SongIds :
        LET favs == ParseFavorites(favFile.content)
        IN  /\ freq' = [freq EXCEPT ![p] = Request("add", song_id)]
            /\ fhist' = [fhist EXCEPT ![p].read = TRUE, ![p].readSha = favFile.sha,
                                      ![p].readFavs = favs]
            /\ IF InList(song_id, favs)
               THEN /\ favorites' = [favorites EXCEPT ![p] = favs]
                    /\ fresp' = [fresp EXCEPT ![p] = OkResp("Already in favorites", favs)]
                    /\ fpc' = [fpc EXCEPT ![p] = "done"]
               ELSE /\ favorites' = [favorites EXCEPT ![p] = Append(favs, song_id)]
                    /\ fpc' = [fpc EXCEPT ![p] = "update_favorites"]
                    /\ UNCHANGED fresp
    /\ UNCHANGED <<favFile, fileSha>>
    /\ UNCHANGED notFavVars

\* remove_favorite as it would be without the `if song_id in favorites` test of
\* line 362: the list is rewritten whether or not the id was in it
RemoveFavoriteReadUnguarded(p) ==
    /\ CanStart(p)
    /\ \E song_id \in SongIds :
        LET favs == ParseFavorites(favFile.content)
        IN  /\ freq' = [freq EXCEPT ![p] = Request("remove", song_id)]
            /\ fhist' = [fhist EXCEPT ![p].read = TRUE, ![p].readSha = favFile.sha,
                                      ![p].readFavs = favs]
            /\ favorites' = [favorites EXCEPT ![p] = ListRemove(favs, song_id)]
            /\ fpc' = [fpc EXCEPT ![p] = "update_favorites"]
            /\ UNCHANGED fresp
    /\ UNCHANGED <<favFile, fileSha>>
    /\ UNCHANGED notFavVars

\* remove_favorite, lines 349-363 and 375-376
RemoveFavoriteRead(p) ==
    /\ CanStart(p)
    /\ \E song_id \in SongIds :
        LET favs == ParseFavorites(favFile.content)
        IN  /\ freq' = [freq EXCEPT ![p] = Request("remove", song_id)]
            /\ fhist' = [fhist EXCEPT ![p].read = TRUE, ![p].readSha = favFile.sha,
                                      ![p].readFavs = favs]
            /\ IF InList(song_id, favs)
               THEN /\ favorites' = [favorites EXCEPT ![p] = ListRemove(favs, song_id)]
                    /\ fpc' = [fpc EXCEPT ![p] = "update_favorites"]
                    /\ UNCHANGED fresp
               ELSE /\ favorites' = [favorites EXCEPT ![p] = favs]
                    /\ fresp' = [fresp EXCEPT ![p] = OkResp("Not in favorites", favs)]
                    /\ fpc' = [fpc EXCEPT ![p] = "done"]
    /\ UNCHANGED <<favFile, fileSha>>
    /\ UNCHANGED notFavVars

\* update_favorites, line 62: fetch data.js again and keep its sha
UpdateFavoritesFetch(p) ==
    /\ fpc[p] = "update_favorites"
    /\ fileSha' = [fileSha EXCEPT ![p] = favFile.sha]
    /\ fhist' = [fhist EXCEPT ![p].updCalled = TRUE]
    /\ fpc' = [fpc EXCEPT ![p] = "update_file"]
    /\ UNCHANGED <<favFile, freq, favorites, fresp>>
    /\ UNCHANGED notFavVars

\* update_favorites: the fetch of line 62 raises; lines 84-85, 337-338 / 367-368
UpdateFavoritesFetchFail(p) ==
    /\ fpc[p] = "update_favorites"
    /\ fhist' = [fhist EXCEPT ![p].updCalled = TRUE]
    /\ fpc' = [fpc EXCEPT ![p] = "done"]
    /\ fresp' = [fresp EXCEPT ![p] = ErrorResp(500)]
    /\ UNCHANGED <<favFile, freq, favorites, fileSha>>
    /\ UNCHANGED notFavVars

\* the message of a successful mutation, lines 340-344 / 370-374
DoneMessage(op) ==
    IF op = "add" THEN "Added to favorites" ELSE "Removed from favorites"

\* update_favorites, lines 65-83: repo.update_file with the sha of line 62.
\* The store accepts the write only when that sha is the file's current one.
UpdateFavoritesWrite(p) ==
    /\ fpc[p] = "update_file"
    /\ fileSha[p] = favFile.sha
    /\ favFile' = [content |-> RenderFavorites(favorites[p]), sha |-> favFile.sha + 1]
    /\ fhist' = [fhist EXCEPT ![p].wrote = TRUE, ![p].baseSha = favFile.sha,
                              ![p].newSha = favFile.sha + 1]
    /\ fresp' = [fresp EXCEPT ![p] = OkResp(DoneMessage(freq[p].op), favorites[p])]
    /\ fpc' = [fpc EXCEPT ![p] = "done"]
    /\ UNCHANGED <<freq, favorites, fileSha>>
    /\ UNCHANGED notFavVars

\* repo.update_file is refused: the sha of line 62 is no longer current
\* (another write landed between line 62 and line 75); lines 84-85
UpdateFavoritesConflict(p) ==
    /\ fpc[p] = "update_file"
    /\ fileSha[p] # favFile.sha
    /\ fpc' = [fpc EXCEPT ![p] = "done"]
    /\ fresp' = [fresp EXCEPT ![p] = ErrorResp(500)]
    /\ UNCHANGED <<favFile, freq, favorites, fileSha, fhist>>
    /\ UNCHANGED notFavVars

\* repo.update_file raises for another reason (network, permissions)
UpdateFavoritesWriteFail(p) ==
    /\ fpc[p] = "update_file"
    /\ fpc' = [fpc EXCEPT ![p] = "done"]
    /\ fresp' = [fresp EXCEPT ![p] = ErrorResp(500)]
    /\ UNCHANGED <<favFile, freq, favorites, fileSha, fhist>>
    /\ UNCHANGED notFavVars

FavNext ==
    \E p \in Reqs :
        \/ PostFavoriteNoId(p)
        \/ GetFavoritesFail(p)
        \/ AddFavoriteRead(p)
        \/ RemoveFavoriteRead(p)
        \/ UpdateFavoritesFetch(p)
        \/ UpdateFavoritesFetchFail(p)
        \/ UpdateFavoritesWrite(p)
        \/ UpdateFavoritesConflict(p)
        \/ UpdateFavoritesWriteFail(p)

\* the favorites requests alone: the catalog is not consulted
InitFav ==
    /\ FavInit
    /\ catalog = <<>> /\ qreq = NoRequest /\ qresp = NoAnswer
    /\ ScraperAtRest

SpecFav == InitFav /\ [][FavNext]_vars

(***************************************************************************)
(* More string operations of Python.                                       *)
(***************************************************************************)
\* str.lower() on the letters the model uses
LowerOf == [A |-> "a", B |-> "b", U |-> "u"]
Lower(s) == [i \in 1..Len(s) |-> IF s[i] \in DOMAIN LowerOf THEN LowerOf[s[i]] ELSE s[i]]

Whitespace == {SP, NL, "\t"}

RECURSIVE LStrip(_)
LStrip(s) == IF Len(s) > 0 /\ s[1] \in Whitespace THEN LStrip(Tail(s)) ELSE s

RECURSIVE RStrip(_)
RStrip(s) ==
    IF Len(s) > 0 /\ s[Len(s)] \in Whitespace THEN RStrip(SubSeq(s, 1, Len(s) - 1)) ELSE s

\* str.strip()
Strip(s) == RStrip(LStrip(s))

\* s.split(sep) for a one-character sep: the pieces between the separators,
\* always at least one piece
RECURSIVE Split(_, _)
Split(s, sep) ==
    LET j == IndexFrom(s, sep, 1)
    IN  IF j = 0 THEN <<s>>
        ELSE <<SubSeq(s, 1, j - 1)>> \o Split(SubSeq(s, j + 1, Len(s)), sep)

\* lst[-1]
Last(lst) == lst[Len(lst)]

(***************************************************************************)
(* The catalog endpoints.  A song is a dict: a function from the keys it   *)
(* has to their values.  Every endpoint loads the whole document first and  *)
(* keeps nothing between requests, so a behaviour holds one request.       *)
(***************************************************************************)
PyNone == <<"<None>">>

\* dict.get(key, default)
Get(song, key, default) == IF key \in DOMAIN song THEN song[key] ELSE default

UnknownStr == <<"U", "n", "k", "n", "o", "w", "n">>
UnknownArtistStr == UnknownStr \o <<SP, "A", "r", "t", "i", "s", "t">>
NormalStr == <<"N", "o", "r", "m", "a", "l">>

Titles == { <<"b", SP, "A">> }
Artists == { UnknownStr, UnknownArtistStr, <<"A", "b">> }
Urls == { <<"s", "/", "a">>, <<"s", "/", "a", "b">>, <<"s", "/", "a", "/">> }

\* the song dicts a catalog document may hold: each of title, artist and url
\* present or not
Songs ==
    LET Field(key, values) == { [k \in {key} |-> v] : v \in values } \cup { <<>> }
        Merge(f, g) == [k \in DOMAIN f \cup DOMAIN g |->
                           IF k \in DOMAIN f THEN f[k] ELSE g[k]]
    IN  { Merge(t, Merge(a, u)) :
            t \in Field("title", Titles), a \in Field("artist", Artists),
            u \in Field("url", Urls) }

Catalogs == UNION { [1..n -> Songs] : n \in 0..MaxCatalog }

\* the q parameter of GET /api/search; <<>> also stands for a missing q
Queries == { <<>>, <<SP>>, <<"a">>, <<"A">>, <<SP, "a">>, <<"a", "b">>, <<"u", "n">> }

QueryInit ==
    /\ catalog \in Catalogs
    /\ qreq = NoRequest
    /\ qresp = NoAnswer

\* get_songs_data raises inside (lines 31-32) and the handler answers 500
\* (lines 117-118, 141-142, 175-176, 238-239)
GetSongsDataFail ==
    /\ qreq = NoRequest
    /\ \E e \in {"songs", "songs_full", "stats"} : qreq' = [endpoint |-> e, q |-> <<>>]
    /\ qresp' = Answer(500, <<>>)
    /\ UNCHANGED <<catalog, notQueryVars>>

\* the projection with the id taken from the front of the url
SimplifiedFirstSegment(s) ==
    [ title |-> Get(s, "title", PyNone),
      artist |-> Get(s, "artist", UnknownStr),
      url |-> Get(s, "url", PyNone),
      difficulty |-> Get(s, "difficulty", NormalStr),
      thumbnail |-> Get(s, "thumbnail", PyNone),
      id |-> Split(Get(s, "url", <<>>), "/")[1],
      categories |-> Get(s, "categories", <<>>) ]

\* lines 121-129 of get_songs: the projection of one song
Simplified(s) ==
    [ title |-> Get(s, "title", PyNone),
      artist |-> Get(s, "artist", UnknownStr),
      url |-> Get(s, "url", PyNone),
      difficulty |-> Get(s, "difficulty", NormalStr),
      thumbnail |-> Get(s, "thumbnail", PyNone),
      id |-> Last(Split(Get(s, "url", <<>>), "/")),
      categories |-> Get(s, "categories", <<>>) ]

\* GET /api/songs, lines 112-134
GetSongs ==
    /\ qreq = NoRequest
    /\ qreq' = [endpoint |-> "songs", q |-> <<>>]
    /\ LET simplified == [i \in 1..Len(catalog) |-> Simplified(catalog[i])]
       IN  qresp' = Answer(200, [count |-> Len(simplified), songs |-> simplified])
    /\ UNCHANGED <<catalog, notQueryVars>>

\* GET /api/songs/full, lines 136-147
GetSongsFull ==
    /\ qreq = NoRequest
    /\ qreq' = [endpoint |-> "songs_full", q |-> <<>>]
    /\ qresp' = Answer(200, [count |-> Len(catalog), songs |-> catalog])
    /\ UNCHANGED <<catalog, notQueryVars>>

\* str.endswith
EndsWith(s, suffix) ==
    /\ Len(suffix) <= Len(s)
    /\ SubSeq(s, Len(s) - Len(suffix) + 1, Len(s)) = suffix

\* the song_id of GET /api/song/<path:song_id>; with the empty text the path
\* is /api/song/, which the rule of line 149 does not match
SongIdsAsked == { <<>>, <<"a">>, <<"a", "b">>, <<"b">> }

\* lines 157-163 of get_song: the loop over songs[i..], first match wins
RECURSIVE FindSong(_, _, _)
FindSong(songs, song_id, i) ==
    IF i > Len(songs) THEN Answer(404, <<>>)
    ELSE LET url == Get(songs[i], "url", <<>>)
         IN  IF Contains(url, song_id) \/ EndsWith(url, <<"/">> \o song_id)
             THEN Answer(200, songs[i])
             ELSE FindSong(songs, song_id, i + 1)

\* GET /api/song/<path:song_id>, lines 149-163: no route for the empty id,
\* 500 when get_songs_data fails, otherwise the first song that matches
GetSong ==
    /\ qreq = NoRequest
    /\ \E song_id \in SongIdsAsked :
          /\ qreq' = [endpoint |-> "song", q |-> song_id]
          /\ IF song_id = <<>>
             THEN qresp' = Answer(404, <<>>)
             ELSE \E error \in BOOLEAN :
                     qresp' = IF error THEN Answer(500, <<>>)
                              ELSE FindSong(catalog, song_id, 1)
    /\ UNCHANGED <<catalog, notQueryVars>>

\* the test with the artist forgotten
SearchMatchesTitleOnly(song, query) ==
    Contains(Lower(Get(song, "title", <<>>)), query)

\* lines 181-184 of search_songs: the test a song must pass
SearchMatches(song, query) ==
    LET title == Lower(Get(song, "title", <<>>))
        artist == Lower(Get(song, "artist", <<>>))
    IN  Contains(title, query) \/ Contains(artist, query)

\* lines 179-185 of search_songs: the loop over songs[i..]
RECURSIVE SearchResults(_, _, _)
SearchResults(songs, query, i) ==
    IF i > Len(songs) THEN <<>>
    ELSE (IF SearchMatches(songs[i], query) THEN <<songs[i]>> ELSE <<>>)
         \o SearchResults(songs, query, i + 1)

\* line 168 of search_songs
SearchQuery(q) == Strip(Lower(q))

\* GET /api/search?q=, lines 165-191
SearchSongs ==
    /\ qreq = NoRequest
    /\ \E q \in Queries :
        LET query == SearchQuery(q)
        IN  /\ qreq' = [endpoint |-> "search", q |-> q]
            /\ \/ /\ query = <<>>
                  /\ qresp' = Answer(400, <<>>)
               \/ /\ query # <<>>
                  /\ qresp' = Answer(500, <<>>)
               \/ /\ query # <<>>
                  /\ LET results == SearchResults(catalog, query, 1)
                     IN  qresp' = Answer(200, [query |-> query, count |-> Len(results),
                                               results |-> results])
            /\ UNCHANGED <<catalog, notQueryVars>>

\* lines 250-254 of get_stats: the artists counted
RECURSIVE StatsArtists(_, _)
StatsArtists(songs, i) ==
    IF i > Len(songs) THEN {}
    ELSE LET artist == Get(songs[i], "artist", UnknownStr)
         IN  (IF artist # <<>> /\ artist # UnknownArtistStr THEN {artist} ELSE {})
             \cup StatsArtists(songs, i + 1)

\* GET /api/stats, lines 233-282 (the songs of the model carry no difficulty,
\* categories or sheets; favorites are read with get_favorites, whose failure
\* is ignored)
GetStats ==
    /\ qreq = NoRequest
    /\ qreq' = [endpoint |-> "stats", q |-> <<>>]
    /\ \E favs \in {ParseFavorites(favFile.content), <<>>} :
          qresp' = Answer(200, [ total_songs |-> Len(catalog),
                                 total_artists |-> Cardinality(StatsArtists(catalog, 1)),
                                 total_favorites |-> Len(favs) ])
    /\ UNCHANGED <<catalog, notQueryVars>>

QueryNext ==
    \/ GetSongsDataFail
    \/ GetSongs
    \/ GetSongsFull
    \/ GetSong
    \/ SearchSongs
    \/ GetStats

\* the catalog requests alone, over a data.js that holds one favorite
InitQuery ==
    /\ QueryInit
    /\ FavInitWith({<<PyStr(<<"a">>)>>})
    /\ ScraperAtRest

SpecQuery == InitQuery /\ [][QueryNext]_vars

(***************************************************************************)
(* The collector, PianoSheetsScraper.  One process at a time: a run is     *)
(* __init__ followed by run(); the next run starts a new process over the  *)
(* files the earlier ones left under sheets/.                              *)
(***************************************************************************)
CategoryStr == <<"c", "a", "t", "e", "g", "o", "r", "y">>
PageStr == <<"p", "a", "g", "e">>
SheetsPrefix == <<"/", "s", "h", "e", "e", "t", "s", "/">>

\* what link.find_element(...).text yields when the element is missing
Missing == <<"<missing>">>

\* the <a href*="/sheets/"> elements the site shows
LinkX == [href |-> SheetsPrefix \o <<"x">>, title |-> <<"a">>, artist |-> <<"b">>]
LinkY == [href |-> SheetsPrefix \o <<"y">>, title |-> <<"a", "!">>, artist |-> <<"b">>]
LinkZ == [href |-> SheetsPrefix \o <<"z">>, title |-> Missing, artist |-> Missing]
LinkP == [href |-> SheetsPrefix \o PageStr, title |-> <<"a", SP, "b">>, artist |-> <<"b">>]

\* the link lists one listing page may show
PageLinks == { <<>>, <<LinkX, LinkY>>, <<LinkZ, LinkP, LinkX>> }

\* a listing page: its links, and whether it has an a[rel="next"]
ListingPages == [links : PageLinks, next : BOOLEAN]

Sites == UNION { [1..n -> ListingPages] : n \in 0..MaxPages }

\* characters re.sub(r'[^\w\s-]', '', s) removes, among those of the model
Punctuation == {"!", "/", ".", ",", ";", Q, RB}

RECURSIVE RemovePunctuation(_)
RemovePunctuation(s) ==
    IF Len(s) = 0 THEN <<>>
    ELSE (IF s[1] \in Punctuation THEN <<>> ELSE <<s[1]>>) \o RemovePunctuation(Tail(s))

\* lines 260-261 / 265-266 of save_song
SafeName(s) ==
    LET stripped == Strip(RemovePunctuation(s))
    IN  [i \in 1..Len(stripped) |-> IF stripped[i] = SP THEN "_" ELSE stripped[i]]

\* lines 260-275 of save_song: the file a song is written to
FilePath(song_data) ==
    LET safe_artist == SafeName(song_data.artist)
        safe_title == SafeName(song_data.title)
    IN  [ dir |-> IF safe_artist = <<>> THEN UnknownStr ELSE safe_artist,
          name |-> IF safe_title = <<>> THEN song_data.id ELSE safe_title ]

\* what json.load cannot parse: the text left in a file that open(.., 'w')
\* truncated and json.dump did not finish writing
Truncated == [truncated |-> TRUE]

\* lines 36-52, load_existing_songs: the ids of the files under sheets/; a
\* file json.load fails on is passed over (lines 46-47)
LoadExistingSongs == { f.data.id : f \in { g \in sheets : g.data # Truncated } }

\* __init__ (lines 19-34) of a new process, up to the start of run()
Construct ==
    /\ spc \in {"new", "done"}
    /\ shist.runs < MaxRuns
    /\ existing_songs' = LoadExistingSongs
    /\ page' = 1
    /\ all_songs' = <<>>
    /\ idx' = 1
    /\ successful' = 0
    /\ failed' = 0
    /\ outcome' = "none"
    /\ quits' = 0
    /\ shist' = [ runs |-> shist.runs + 1, attempted |-> <<>>, saved |-> {},
                  savedBefore |-> shist.savedBefore \cup shist.saved,
                  firstPageFailed |-> FALSE, pages |-> <<>> ]
    /\ spc' = "enumerate"
    /\ UNCHANGED <<site, sheets, notScraperVars>>

\* lines 76-109 of get_all_song_links: the links of one page, from the k-th
\* on, added to the songs collected so far
RECURSIVE CollectLinks(_, _, _)
CollectLinks(links, k, songs) ==
    IF k > Len(links) THEN songs
    ELSE LET href == links[k].href
             song_id == Last(Split(href, "/"))
             song_data == [ id |-> song_id, url |-> href,
                            title |-> IF links[k].title = Missing
                                      THEN UnknownStr ELSE links[k].title,
                            artist |-> IF links[k].artist = Missing
                                       THEN UnknownStr ELSE links[k].artist ]
         IN  IF Contains(href, CategoryStr) \/ Contains(href, PageStr)
             THEN CollectLinks(links, k + 1, songs)
             ELSE IF song_id \in existing_songs
             THEN CollectLinks(links, k + 1, songs)
             ELSE IF \E j \in 1..Len(songs) : songs[j].id = song_id
             THEN CollectLinks(links, k + 1, songs)
             ELSE CollectLinks(links, k + 1, Append(songs, song_data))

\* what the site serves for listing page n
LinksOfPage(n) == IF n \in 1..Len(site) THEN site[n].links ELSE <<>>
HasNext(n) == n \in 1..Len(site) /\ site[n].next

\* get_all_song_links, one turn of the while loop (lines 60-121) on a page
\* that loads; shist.pages notes the page and what line 114 prints as
\* len(page_songs)
EnumeratePage ==
    /\ spc = "enumerate"
    /\ LET links == LinksOfPage(page)
       IN  IF links = <<>>
           THEN /\ spc' = "enumerated"
                /\ UNCHANGED <<all_songs, page>>
           ELSE /\ all_songs' = CollectLinks(links, 1, all_songs)
                /\ IF HasNext(page)
                   THEN page' = page + 1 /\ UNCHANGED spc
                   ELSE spc' = "enumerated" /\ UNCHANGED page
    /\ shist' = [shist EXCEPT !.pages =
                    Append(@, [n |-> page, loaded |-> TRUE,
                               new |-> Len(all_songs') - Len(all_songs)])]
    /\ UNCHANGED <<site, sheets, existing_songs, idx, successful, failed, outcome,
                   quits, notScraperVars>>

\* get_all_song_links: driver.get (or find_elements) raises on the page; the
\* handler of lines 123-125 prints and leaves the loop
EnumeratePageFails ==
    /\ spc = "enumerate"
    /\ spc' = "enumerated"
    /\ shist' = [shist EXCEPT !.firstPageFailed = (page = 1),
                              !.pages = Append(@, [n |-> page, loaded |-> FALSE,
                                                   new |-> 0])]
    /\ UNCHANGED <<site, sheets, existing_songs, page, all_songs, idx, successful,
                   failed, outcome, quits, notScraperVars>>

\* run, lines 294-298: nothing collected, "Database is up to date", return
RunNothingNew ==
    /\ spc = "enumerated"
    /\ all_songs = <<>>
    /\ outcome' = "up_to_date"
    /\ spc' = "finally"
    /\ UNCHANGED <<site, sheets, existing_songs, page, all_songs, idx, successful,
                   failed, quits, shist, notScraperVars>>

\* run, lines 300-304: something collected, enter the loop
RunStartsScraping ==
    /\ spc = "enumerated"
    /\ all_songs # <<>>
    /\ idx' = 1
    /\ successful' = 0
    /\ failed' = 0
    /\ spc' = "scrape"
    /\ UNCHANGED <<site, sheets, existing_songs, page, all_songs, outcome, quits,
                   shist, notScraperVars>>

\* scrape_song (lines 212-250) returns True: the page loaded, notes were
\* extracted, save_song (lines 256-280) wrote the file; run counts it
ScrapeSongSaved ==
    /\ spc = "scrape"
    /\ idx <= Len(all_songs)
    /\ LET song == all_songs[idx]
           song_data == [id |-> song.id, title |-> song.title, artist |-> song.artist,
                         url |-> song.url]
           file_path == FilePath(song_data)
       IN  /\ sheets' = { f \in sheets : f.path # file_path }
                           \cup { [path |-> file_path, data |-> song_data] }
           /\ shist' = [shist EXCEPT !.attempted = Append(@, song.url),
                                     !.saved = @ \cup {song.url}]
    /\ successful' = successful + 1
    /\ idx' = idx + 1
    /\ UNCHANGED <<site, spc, existing_songs, page, all_songs, failed, outcome,
                   quits, notScraperVars>>

\* what save_song (lines 256-284) leaves under sheets/ when it fails: nothing
\* new when makedirs or open raised, the truncated file when json.dump raised
\* after open(file_path, 'w')
FailedSaveLeaves(song) ==
    LET file_path == FilePath([id |-> song.id, title |-> song.title,
                               artist |-> song.artist, url |-> song.url])
    IN  { sheets,
          { f \in sheets : f.path # file_path }
              \cup { [path |-> file_path, data |-> Truncated] } }

\* scrape_song with a failure that ends the for loop of run instead of being
\* counted and passed over
ScrapeSongFailedEndsLoop ==
    /\ spc = "scrape"
    /\ idx <= Len(all_songs)
    /\ \E why \in {"exception", "no notes", "save failed"} :
          /\ shist' = [shist EXCEPT !.attempted = Append(@, all_songs[idx].url)]
          /\ IF why = "save failed"
             THEN sheets' \in FailedSaveLeaves(all_songs[idx])
             ELSE sheets' = sheets
    /\ failed' = failed + 1
    /\ idx' = Len(all_songs) + 1
    /\ UNCHANGED <<site, spc, existing_songs, page, all_songs, successful,
                   outcome, quits, notScraperVars>>

\* scrape_song returns False: driver.get raised (lines 252-254), no notes were
\* found (lines 227-229) or save_song failed (lines 248-250, 282-284); run
\* counts it and goes on to the next song
ScrapeSongFailed ==
    /\ spc = "scrape"
    /\ idx <= Len(all_songs)
    /\ \E why \in {"exception", "no notes", "save failed"} :
          /\ shist' = [shist EXCEPT !.attempted = Append(@, all_songs[idx].url)]
          /\ IF why = "save failed"
             THEN sheets' \in FailedSaveLeaves(all_songs[idx])
             ELSE sheets' = sheets
    /\ failed' = failed + 1
    /\ idx' = idx + 1
    /\ UNCHANGED <<site, spc, existing_songs, page, all_songs, successful,
                   outcome, quits, notScraperVars>>

\* run, lines 317-324: the loop is over, the summary is printed
RunSummary ==
    /\ spc = "scrape"
    /\ idx > Len(all_songs)
    /\ outcome' = "completed"
    /\ spc' = "finally"
    /\ UNCHANGED <<site, sheets, existing_songs, page, all_songs, idx, successful,
                   failed, quits, shist, notScraperVars>>

\* run, lines 326-328: an exception leaves the try block (a print that fails,
\* an interrupt during time.sleep); it is reported as fatal and raised again
RunRaises ==
    /\ spc \in {"enumerate", "enumerated", "scrape"}
    /\ outcome' = "fatal"
    /\ spc' = "finally"
    /\ UNCHANGED <<site, sheets, existing_songs, page, all_songs, idx, successful,
                   failed, quits, shist, notScraperVars>>

\* run with driver.quit() as the last statement of the try block instead of a
\* finally: an exception passes it by
RunFinallyOnlyOnReturn ==
    /\ spc = "finally"
    /\ quits' = IF outcome = "fatal" THEN quits ELSE quits + 1
    /\ spc' = "done"
    /\ UNCHANGED <<site, sheets, existing_songs, page, all_songs, idx, successful,
                   failed, outcome, shist, notScraperVars>>

\* run, lines 330-331: finally
RunFinally ==
    /\ spc = "finally"
    /\ quits' = quits + 1
    /\ spc' = "done"
    /\ UNCHANGED <<site, sheets, existing_songs, page, all_songs, idx, successful,
                   failed, outcome, shist, notScraperVars>>

ScraperNext ==
    \/ Construct
    \/ EnumeratePage
    \/ EnumeratePageFails
    \/ RunNothingNew
    \/ RunStartsScraping
    \/ ScrapeSongSaved
    \/ ScrapeSongFailed
    \/ RunSummary
    \/ RunRaises
    \/ RunFinally

\* the collector alone, over a fixed site and an empty sheets/ directory
InitScraper ==
    /\ site \in Sites
    /\ sheets = {}
    /\ ScraperLocalsAtRest
    /\ FavInitWith({<<>>})
    /\ catalog = <<>> /\ qreq = NoRequest /\ qresp = NoAnswer

SpecScraper == InitScraper /\ [][ScraperNext]_vars

(***************************************************************************)
(* Claims about the favorites (checked under SpecFav).                     *)
(***************************************************************************)
\* C1: a request whose read of the favorites list was made stale by another
\* request's successful write does not overwrite that write: every write
\* that succeeds replaces the very version of data.js the request's list was
\* read from.
StaleReadIsRejected ==
    \A p \in Reqs : fhist[p].wrote => fhist[p].baseSha = fhist[p].readSha

\* C2: add_favorite is idempotent: when an add has written its song_id and a
\* second add of the same song_id reads data.js as the first left it (both
\* served without a store failure, no writer in between), the second answers
\* "Already in favorites" with the list the first returned and writes nothing.
AddFavoriteIdempotent ==
    \A p, q \in Reqs :
        ( /\ p # q
          /\ fpc[p] = "done" /\ fpc[q] = "done"
          /\ freq[p] = freq[q] /\ freq[p].op = "add" /\ freq[p].has_id
          /\ fresp[p].status = 200 /\ fresp[q].status = 200
          /\ fhist[p].wrote /\ fhist[q].readSha = fhist[p].newSha )
        => /\ fresp[q].message = "Already in favorites"
           /\ fresp[q].favorites = fresp[p].favorites
           /\ ~fhist[q].updCalled
           /\ ~fhist[q].wrote

\* lst without the element at index i
WithoutIndex(lst, i) == SubSeq(lst, 1, i - 1) \o SubSeq(lst, i + 1, Len(lst))

\* C3: remove_favorite of a song_id that is not in the list it read is a
\* no-op: update_favorites is not called, nothing is written, and the
\* response is a success with "Not in favorites" and the list as read.  When
\* the song_id is in the list, its (first) occurrence is removed, the request
\* succeeds only by writing that new list, and the written file reads back
\* as that list; if the list read had no duplicates the id is gone from it.
RemoveAbsentIsNoOp ==
    \A p \in Reqs :
        (freq[p].op = "remove" /\ fhist[p].read) =>
            LET song_id == freq[p].song_id
                favs == fhist[p].readFavs
            IN  IF ~InList(song_id, favs)
                THEN /\ fpc[p] = "done"
                     /\ ~fhist[p].updCalled
                     /\ ~fhist[p].wrote
                     /\ fresp[p] = OkResp("Not in favorites", favs)
                ELSE /\ \E i \in 1..Len(favs) :
                            /\ favs[i] = song_id
                            /\ \A j \in 1..(i - 1) : favs[j] # song_id
                            /\ favorites[p] = WithoutIndex(favs, i)
                     /\ NoDuplicates(favs) => ~InList(song_id, favorites[p])
                     /\ fresp[p].status = 200 <=> fhist[p].wrote
                     /\ fhist[p].wrote =>
                            fresp[p] = OkResp("Removed from favorites", favorites[p])
                     /\ (fhist[p].wrote /\ favFile.sha = fhist[p].newSha) =>
                            ParseFavorites(favFile.content) = favorites[p]

\* C3 witness: one remove found its id absent in a non-empty list and
\* answered "Not in favorites", another found its id and persisted the removal
RemoveAbsentIsNoOpWitness ==
    \E p, q \in Reqs :
        /\ freq[p].op = "remove" /\ fresp[p].message = "Not in favorites"
        /\ Len(fhist[p].readFavs) > 0
        /\ freq[q].op = "remove" /\ fhist[q].wrote

\* C4: the persisted favorites never hold the same id twice: every list
\* get_favorites returns, every list handed to update_favorites and the list
\* data.js holds are duplicate-free.
FavoritesNeverDuplicate ==
    /\ NoDuplicates(ParseFavorites(favFile.content))
    /\ \A p \in Reqs :
          /\ fhist[p].read => NoDuplicates(fhist[p].readFavs)
          /\ fhist[p].updCalled => NoDuplicates(favorites[p])

(***************************************************************************)
(* Claims about the catalog endpoints (checked under SpecQuery).           *)
(***************************************************************************)
\* the songs of the catalog, in catalog order, that hold `needle` in their
\* lowercased title or artist (a missing field counts as empty text)
Holding(needle) ==
    LET Hit(s) == \/ Contains(Lower(Get(s, "title", <<>>)), needle)
                  \/ Contains(Lower(Get(s, "artist", <<>>)), needle)
    IN  SelectSeq(catalog, Hit)

SearchAnswered == qreq.endpoint = "search" /\ qresp.status # 500

\* C6 as stated: for every non-empty q the search returns exactly the
\* catalog records that hold q, lowercased, in their lowercased title or
\* artist, in catalog order.
SearchReturnsRecordsHoldingQ ==
    (SearchAnswered /\ qreq.q # <<>>) =>
        /\ qresp.status = 200
        /\ qresp.body.results = Holding(Lower(qreq.q))

\* C6 amended: the search looks for q lowercased and stripped of surrounding
\* whitespace.  A q that is empty once stripped is answered 400; any other q
\* is answered with exactly the catalog records that hold the stripped,
\* lowercased q in their lowercased title or artist, in catalog order, with
\* their count.
SearchReturnsRecordsHoldingStrippedQ ==
    SearchAnswered =>
        LET needle == Strip(Lower(qreq.q))
        IN  IF needle = <<>>
            THEN qresp.status = 400
            ELSE /\ qresp.status = 200
                 /\ qresp.body.query = needle
                 /\ qresp.body.results = Holding(needle)
                 /\ qresp.body.count = Len(Holding(needle))

\* C6 witness: a q with a leading blank was answered with some but not all
\* records, one of which does not hold q as sent
SearchStrippedWitness ==
    /\ SearchAnswered /\ qreq.q = <<SP, "a">> /\ qresp.status = 200
    /\ Len(qresp.body.results) > 0
    /\ Len(qresp.body.results) < Len(catalog)
    /\ qresp.body.results # Holding(Lower(qreq.q))

\* C7: total_artists is the number of distinct artist values of the catalog
\* other than "Unknown"; a record without artist, or with artist "Unknown",
\* adds nothing to it.
StatsArtistsExcludeUnknown ==
    (qreq.endpoint = "stats" /\ qresp.status = 200) =>
        qresp.body.total_artists =
            Cardinality({ catalog[i]["artist"] :
                            i \in { j \in 1..Len(catalog) :
                                      /\ "artist" \in DOMAIN catalog[j]
                                      /\ catalog[j]["artist"] # UnknownStr } })

\* id is what follows the last "/" of url (all of url when it has no "/")
IsLastSegment(id, url) ==
    /\ \A i \in 1..Len(id) : id[i] # "/"
    /\ \E k \in 0..Len(url) :
          /\ SubSeq(url, k + 1, Len(url)) = id
          /\ k = 0 \/ url[k] = "/"

\* C8: the lightweight list has the length and order of the full list, its
\* count is that length, and each entry's id is the last "/"-separated
\* segment of that entry's url (of the empty text for a record without url).
SongsListMatchesFull ==
    /\ (qreq.endpoint = "songs_full" /\ qresp.status = 200) =>
          /\ qresp.body.songs = catalog
          /\ qresp.body.count = Len(catalog)
    /\ (qreq.endpoint = "songs" /\ qresp.status = 200) =>
          /\ qresp.body.count = Len(catalog)
          /\ Len(qresp.body.songs) = Len(catalog)
          /\ \A i \in 1..Len(catalog) :
                LET e == qresp.body.songs[i]
                IN  /\ e.title = Get(catalog[i], "title", PyNone)
                    /\ e.url = Get(catalog[i], "url", PyNone)
                    /\ IsLastSegment(e.id, IF e.url = PyNone THEN <<>> ELSE e.url)

\* C8 witness: the lightweight list of a catalog of two records with
\* different urls, carrying their two ids in catalog order
SongsListWitness ==
    /\ qreq.endpoint = "songs" /\ qresp.status = 200
    /\ Len(catalog) >= 2
    /\ qresp.body.songs[1].id = <<"a", "b">>
    /\ qresp.body.songs[2].id = <<"a">>

(***************************************************************************)
(* Claims about the collector (checked under SpecScraper).                 *)
(***************************************************************************)
\* C5: an item an earlier run scraped and saved is never visited again:
\* scrape_song is not called in a later run with the url of an item for
\* which an earlier run wrote a file (so no new record is produced for it).
SavedItemsNeverRevisited ==
    \A i \in 1..Len(shist.attempted) : shist.attempted[i] \notin shist.savedBefore

\* C9: when the first listing page cannot be loaded the run aborts as a
\* fatal failure: it ends in the fatal outcome, having visited no detail page
\* and written no record.
FirstPageFailureIsFatal ==
    (spc = "done" /\ shist.firstPageFailed) =>
        /\ outcome = "fatal"
        /\ shist.attempted = <<>>
        /\ shist.saved = {}

\* C10: every execution of run ends with the browser torn down:
\* driver.quit() has been called exactly once when run is over, however it
\* left its try block (nothing new, all candidates processed, an exception),
\* and is not called before.
BrowserQuitOnceOnEveryExit ==
    /\ spc = "done" => (quits = 1 /\ outcome \in {"up_to_date", "completed", "fatal"})
    /\ spc \in {"enumerate", "enumerated", "scrape", "finally"} => quits = 0
    /\ spc = "finally" => outcome \in {"up_to_date", "completed", "fatal"}

\* C10 witness: a run that an exception ended after it had begun to scrape
\* is over, with the browser quit once
BrowserQuitAfterFatalWitness ==
    /\ spc = "done" /\ outcome = "fatal" /\ quits = 1
    /\ Len(shist.attempted) > 0

\* the records (parsable files) under sheets/
Records == { f.data : f \in { g \in sheets : g.data # Truncated } }

\* C11: a failure on one item (exception during the visit, no notes, failed
\* save) writes no record for it and does not stop the loop: the items
\* attempted so far are the first candidates, each once, in enumeration
\* order; every attempt is counted as successful or failed; the records under
\* sheets/ are only those of items scrape_song saved (as many this run as
\* were counted successful); and when the loop has ended, successful +
\* failed is the number N of enumerated candidates.
FailedItemsAreCountedAndPassedOver ==
    /\ Len(shist.attempted) <= Len(all_songs)
    /\ \A i \in 1..Len(shist.attempted) : shist.attempted[i] = all_songs[i].url
    /\ \A i, j \in 1..Len(shist.attempted) :
          i # j => shist.attempted[i] # shist.attempted[j]
    /\ successful + failed = Len(shist.attempted)
    /\ Cardinality(shist.saved) = successful
    /\ \A r \in Records : r.url \in shist.saved \cup shist.savedBefore
    /\ spc = "scrape" => idx = Len(shist.attempted) + 1
    /\ outcome = "completed" =>
          /\ successful + failed = Len(all_songs)
          /\ Len(shist.attempted) = Len(all_songs)

\* C11 witness: a loop that has ended in which the first candidate failed and
\* left no record, and the second was attempted after it and saved
FailedThenSavedWitness ==
    /\ outcome = "completed" /\ Len(all_songs) = 2
    /\ failed = 1 /\ successful = 1
    /\ shist.attempted[1] \notin shist.saved
    /\ shist.attempted[2] \in shist.saved
    /\ \A r \in Records : r.url # shist.attempted[1]

\* C12: enumeration visits the listing pages 1, 2, 3, ... in order and stops
\* at the first page that yields no new item link (none that is neither in
\* existing_songs nor collected earlier in the run): it never goes on from a
\* page that yielded no new link to the page after it.
EnumerationStopsAtFirstPageWithoutNew ==
    LET v == shist.pages
    IN  /\ \A i \in 1..Len(v) : v[i].n = i
        /\ \A i \in 1..(Len(v) - 1) : v[i].new > 0

(***************************************************************************)
(* Claims about lookups by id (checked under SpecQuery).                   *)
(***************************************************************************)
\* every record of the catalog has a url and no two have the same
DistinctUrls ==
    /\ \A i \in 1..Len(catalog) : "url" \in DOMAIN catalog[i]
    /\ \A i, j \in 1..Len(catalog) :
          i # j => catalog[i]["url"] # catalog[j]["url"]

\* C13: in a catalog whose records have pairwise distinct urls, GET
\* /api/song/<id> with the id GET /api/songs lists for a record r (the last
\* segment of r's url; taken here for the records whose id is not empty)
\* returns r itself, not another record and not an error.
LookupByListedIdReturnsItsRecord ==
    (qreq.endpoint = "song" /\ qreq.q # <<>> /\ qresp.status # 500 /\ DistinctUrls) =>
        \A i \in 1..Len(catalog) :
            qreq.q = Simplified(catalog[i]).id =>
                /\ qresp.status = 200
                /\ qresp.body = catalog[i]

====
